---- MODULE Spec2Model ----
(***************************************************************************)
(* Model of xenon/core/asset_manager.cpp: the asset registry (path ->      *)
(* metadata), the live asset store (handle -> asset), the directory        *)
(* scanner, load dispatch and the sorted view with registry compaction.    *)
(*                                                                         *)
(* Strings are sequences of one-character strings, so that the path        *)
(* decomposition of createEmptyAsset is computed as the code computes it.  *)
(* Positions are 1-based: the C++ index i is the position i + 1, and       *)
(* std::string::npos is the position Npos.                                 *)
(***************************************************************************)
EXTENDS Integers, Sequences, FiniteSets, TLC

VARIABLES
    s_assetManager,  \* "nullptr" until createAssetManager has run, then "manager"
    projectFolder,   \* manager->projectFolder
    serializers,     \* manager->serializers : AssetType -> AssetSerializer
    registry,        \* manager->registry    : path -> AssetMetadata
    assets,          \* manager->assets      : handle -> Asset object
    sortedAssets,    \* manager->sortedAssets: sequence of (handle, Asset*)
    destroyed,       \* the Asset objects deleted, each with the number of its deletes
    nextUUID,        \* the next value UUID() generates
    nextObj,         \* the next object `new` allocates
    fs,              \* the filesystem under the project folder
    calls,           \* the calls made on the manager since it was created
    ret              \* the last call: its arguments, its result, the entries a scan
                     \* enumerated in its directory, the manager before the call

vars == <<s_assetManager, projectFolder, serializers, registry, assets,
          sortedAssets, destroyed, nextUUID, nextObj, fs, calls, ret>>

----------------------------------------------------------------------------
(* Bounds *)

\* The calls made on the manager after createAssetManager has returned.
MaxCalls == 2

\* The length of the path strings createEmptyAsset is applied to.
MaxPathLen == 4

----------------------------------------------------------------------------
(* Values *)

Npos == 0
NoneUUID == 0
nullptr == 0

AssetType == {"None", "Directory", "Model", "Texture"}

\* The declared order of the AssetType enumeration.
TypeOrdinal == [t \in AssetType |->
    CASE t = "None" -> 0 [] t = "Directory" -> 1 [] t = "Model" -> 2 [] t = "Texture" -> 3]

isValid(uuid) == uuid # NoneUUID

XE_HOST_PATH_BEGIN == <<"<">>
XE_HOST_PATH_END == <<">">>

----------------------------------------------------------------------------
(* The project tree: the paths the filesystem may hold. *)

ProjectFolder == <<"p">>
PathA   == <<"p", "/", "a", ".", "m">>
PathS   == <<"p", "/", "s">>
PathSA  == <<"p", "/", "s", "/", "A", ".", "m">>

FsPaths == {PathA, PathS, PathSA}
AllPaths == {ProjectFolder} \cup FsPaths

\* The directory an entry lies in.
FsParent == [q \in FsPaths |-> IF q = PathSA THEN PathS ELSE ProjectFolder]

\* What each path may be on disk.
FsKinds == [q \in FsPaths |->
    IF q = PathSA THEN {"absent", "file"} ELSE {"absent", "file", "dir"}]

IsDirectory(f, q) == q = ProjectFolder \/ (q \in FsPaths /\ f[q] = "dir")

\* A filesystem: an entry exists only inside an existing directory.
FsStates == {f \in [FsPaths -> {"absent", "file", "dir"}] :
    \A q \in FsPaths : /\ f[q] \in FsKinds[q]
                       /\ (f[q] # "absent" => IsDirectory(f, FsParent[q]))}

RECURSIVE Orderings(_)
Orderings(S) ==
    IF S = {} THEN {<<>>}
    ELSE UNION {{<<x>> \o p : p \in Orderings(S \ {x})} : x \in S}

\* std::filesystem::directory_iterator yields a directory's entries in an
\* unspecified order: one of the orders of the paths.
EnumOrders == Orderings(FsPaths)

IsEntryOf(f, path, q) == FsParent[q] = path /\ f[q] # "absent"

\* The entries directory_iterator(path) yields, as generic_string() paths.
RECURSIVE DirectoryEntries(_, _, _)
DirectoryEntries(f, path, ord) ==
    IF ord = <<>> THEN <<>>
    ELSE (IF IsEntryOf(f, path, Head(ord)) THEN <<Head(ord)>> ELSE <<>>)
         \o DirectoryEntries(f, path, Tail(ord))

----------------------------------------------------------------------------
(* Strings *)

\* std::string::find_last_of(c): the last position of c, or Npos.
RECURSIVE find_last_of(_, _)
find_last_of(s, c) ==
    IF s = <<>> THEN Npos
    ELSE IF s[Len(s)] = c THEN Len(s)
    ELSE find_last_of(SubSeq(s, 1, Len(s) - 1), c)

\* std::string::substr(pos) and substr(0, count), in 1-based positions.
substr_from(s, pos) == SubSeq(s, pos, Len(s))
substr_upto(s, count) == SubSeq(s, 1, count)

FilenameAfterSeparator(path) ==
    LET filenameIndex == find_last_of(path, "/")
    IN  IF filenameIndex = Npos THEN <<>>
        ELSE substr_from(path, filenameIndex + 1)

\* The filename createEmptyAsset derives from a path.
Filename(path) ==
    LET filenameIndex == find_last_of(path, "/")
    IN  IF filenameIndex = Npos THEN <<>>
        ELSE IF filenameIndex = Len(path) THEN substr_upto(path, filenameIndex - 1)
        ELSE substr_from(path, filenameIndex + 1)

\* The extension createEmptyAsset derives from a path.
Extension(path) ==
    LET extentionIndex == find_last_of(path, ".")
    IN  IF extentionIndex # Npos THEN substr_from(path, extentionIndex + 1) ELSE <<>>

\* getAssetTypeFromPath: classification by the extension of the path.
getAssetTypeFromPath(path) ==
    LET ext == Extension(path)
    IN  IF ext = <<"m">> THEN "Model"
        ELSE IF ext = <<"t">> THEN "Texture"
        ELSE "None"

----------------------------------------------------------------------------
(* The manager as a value, threaded through the nested calls. *)

Manager ==
    [registry |-> registry, assets |-> assets, sortedAssets |-> sortedAssets,
     destroyed |-> destroyed, nextUUID |-> nextUUID, nextObj |-> nextObj]

\* new AssetManager(): empty maps, apart from a registry the persistence
\* layer loaded.
NewManager(reg, uuid) ==
    [registry |-> reg, assets |-> <<>>, sortedAssets |-> <<>>,
     destroyed |-> <<>>, nextUUID |-> uuid, nextObj |-> 1]

AssetMetadata(asset) ==
    [handle |-> asset.handle, path |-> asset.path, type |-> asset.type]

\* delete object: one more delete of it is on record.
Delete(deleted, object) ==
    [o \in DOMAIN deleted \cup {object} |->
        IF o = object
        THEN (IF o \in DOMAIN deleted THEN deleted[o] + 1 ELSE 1)
        ELSE deleted[o]]

\* std::map::emplace / operator[]= on a map modelled as a function.
MapPut(map, key, value) ==
    [k \in DOMAIN map \cup {key} |-> IF k = key THEN value ELSE map[k]]

----------------------------------------------------------------------------
(* createEmptyAsset *)

CreateEmptyAssetFresh(m, path, type, parent) ==
    LET asset == [handle    |-> m.nextUUID,
                  path      |-> path,
                  type      |-> type,
                  filename  |-> Filename(path),
                  extension |-> Extension(path),
                  parent    |-> parent,
                  loaded    |-> FALSE,
                  class     |-> IF type = "Directory" THEN "Directory" ELSE "Asset",
                  children  |-> <<>>,
                  obj       |-> m.nextObj]
    IN  [asset |-> asset,
         m     |-> [m EXCEPT !.nextUUID = @ + 1, !.nextObj = @ + 1]]

CreateEmptyAssetKeepType(m, path, type, parent) ==
    LET found  == path \in DOMAIN m.registry
        asset == [handle    |-> IF found THEN m.registry[path].handle ELSE m.nextUUID,
                  path      |-> path,
                  type      |-> IF found THEN m.registry[path].type ELSE type,
                  filename  |-> Filename(path),
                  extension |-> Extension(path),
                  parent    |-> parent,
                  loaded    |-> FALSE,
                  class     |-> IF type = "Directory" THEN "Directory" ELSE "Asset",
                  children  |-> <<>>,
                  obj       |-> m.nextObj]
    IN  [asset |-> asset,
         m     |-> [m EXCEPT !.nextUUID = IF found THEN @ ELSE @ + 1,
                             !.nextObj = @ + 1]]

CreateEmptyAssetRegistering(m, path, type, parent) ==
    LET r == CreateEmptyAssetKeepType(m, path, type, parent)
    IN  [asset |-> r.asset,
         m     |-> [r.m EXCEPT !.registry =
                        MapPut(@, path, [handle |-> r.asset.handle, path |-> path,
                                         type |-> r.asset.type])]]

\* Returns the new object and the manager (only the generators have advanced).
createEmptyAsset(m, path, type, parent) ==
    LET found  == path \in DOMAIN m.registry
        stored == m.registry[path]
        asset == [handle    |-> IF found THEN stored.handle ELSE m.nextUUID,
                  path      |-> path,
                  type      |-> IF found
                                THEN (IF stored.type # type THEN "None" ELSE stored.type)
                                ELSE type,
                  filename  |-> Filename(path),
                  extension |-> Extension(path),
                  parent    |-> parent,
                  loaded    |-> FALSE,
                  class     |-> IF type = "Directory" THEN "Directory" ELSE "Asset",
                  children  |-> <<>>,
                  obj       |-> m.nextObj]
    IN  [asset |-> asset,
         m     |-> [m EXCEPT !.nextUUID = IF found THEN @ ELSE @ + 1,
                             !.nextObj = @ + 1]]

----------------------------------------------------------------------------
(* importAsset *)

StoreAssetNoDelete(m, asset) ==
    [m EXCEPT !.assets = MapPut(m.assets, asset.handle, asset)]

\* Add/replace asset: delete the object stored under the handle, store the new one.
StoreAsset(m, asset) ==
    [m EXCEPT !.destroyed = IF asset.handle \in DOMAIN m.assets
                            THEN Delete(@, m.assets[asset.handle].obj)
                            ELSE @,
              !.assets = MapPut(m.assets, asset.handle, asset)]

RegisterAssetAlways(m, asset) ==
    [m EXCEPT !.registry = MapPut(m.registry, asset.path, AssetMetadata(asset))]

RegisterAssetNever(m, asset) == m

\* Register asset if needed.
RegisterAsset(m, asset) ==
    IF asset.path \notin DOMAIN m.registry
    THEN [m EXCEPT !.registry = MapPut(m.registry, asset.path, AssetMetadata(asset))]
    ELSE m

importAsset(m, path, parent) ==
    LET type == getAssetTypeFromPath(path)
        r    == createEmptyAsset(m, path, type, parent)
    IN  StoreAsset(RegisterAsset(r.m, r.asset), r.asset)

----------------------------------------------------------------------------
(* updateDirectoryAssets *)

AddChildNever(m, parent, handle) == m

AddChildFront(m, parent, handle) ==
    IF isValid(parent)
    THEN [m EXCEPT !.assets[parent].children = <<handle>> \o @]
    ELSE m

\* If we have a parent, add ourself as a child.
AddChild(m, parent, handle) ==
    IF isValid(parent)
    THEN [m EXCEPT !.assets[parent].children = Append(@, handle)]
    ELSE m

RECURSIVE updateDirectoryAssets(_, _, _, _, _)
RECURSIVE ScanEntries(_, _, _, _, _)

\* The loop over directory_iterator(path): recurse into sub-directories,
\* import files, each with the directory's handle as parent.
ScanEntries(m, f, entries, handle, ord) ==
    IF entries = <<>> THEN m
    ELSE LET entry == Head(entries)
             m1 == IF f[entry] = "dir"
                   THEN updateDirectoryAssets(m, f, entry, handle, ord)
                   ELSE importAsset(m, entry, handle)
         IN  ScanEntries(m1, f, Tail(entries), handle, ord)

UpdateDirectoryAssetsMerge(m, f, path, parent, ord) ==
    LET r         == createEmptyAsset(m, path, "Directory", parent)
        kept      == IF r.asset.handle \in DOMAIN m.assets
                     THEN m.assets[r.asset.handle].children ELSE <<>>
        directory == [r.asset EXCEPT !.loaded = TRUE, !.children = kept]
        m1        == StoreAsset(RegisterAsset(r.m, directory), directory)
        m2        == AddChild(m1, parent, directory.handle)
    IN  ScanEntries(m2, f, DirectoryEntries(f, path, ord), directory.handle, ord)

updateDirectoryAssets(m, f, path, parent, ord) ==
    LET r         == createEmptyAsset(m, path, "Directory", parent)
        directory == [r.asset EXCEPT !.loaded = TRUE]
        m1        == StoreAsset(RegisterAsset(r.m, directory), directory)
        m2        == AddChild(m1, parent, directory.handle)
    IN  ScanEntries(m2, f, DirectoryEntries(f, path, ord), directory.handle, ord)

----------------------------------------------------------------------------
(* updateAssetRegistry *)

\* std::tolower on the characters the paths use.
tolower(c) == IF c = "A" THEN "a" ELSE c

ToLower(s) == [i \in 1..Len(s) |-> tolower(s[i])]

\* The character codes, in ASCII order.
CharCode == [c \in {"/", ".", "<", ">", "A", "a", "m", "p", "s", "t"} |->
    CASE c = "." -> 46 [] c = "/" -> 47 [] c = "<" -> 60 [] c = ">" -> 62
      [] c = "A" -> 65 [] c = "a" -> 97 [] c = "m" -> 109 [] c = "p" -> 112
      [] c = "s" -> 115 [] c = "t" -> 116]

\* std::string operator< : lexicographic order.
RECURSIVE StringLess(_, _)
StringLess(a, b) ==
    IF b = <<>> THEN FALSE
    ELSE IF a = <<>> THEN TRUE
    ELSE IF CharCode[Head(a)] # CharCode[Head(b)] THEN CharCode[Head(a)] < CharCode[Head(b)]
    ELSE StringLess(Tail(a), Tail(b))

SortAssetsByFilename(a, b) == StringLess(ToLower(a.filename), ToLower(b.filename))

\* SortAssets::operator(), on the objects the two pointers refer to.
SortAssets(a, b) ==
    LET aFilename == ToLower(a.filename)
        bFilename == ToLower(b.filename)
    IN  \/ TypeOrdinal[a.type] < TypeOrdinal[b.type]
        \/ (a.type = b.type /\ StringLess(aFilename, bFilename))

\* The orders std::sort may leave: no element is before one it must follow.
SortedOrders(m) ==
    {s \in Orderings(DOMAIN m.assets) :
        \A i, j \in 1..Len(s) :
            i < j => ~SortAssets(m.assets[s[j]], m.assets[s[i]])}

CompactRegistryKeepAll(m) == m.registry

\* Clear registry: erase the entries whose handle is not in the live store.
CompactRegistry(m) ==
    LET kept == {p \in DOMAIN m.registry : m.registry[p].handle \in DOMAIN m.assets}
    IN  [p \in kept |-> m.registry[p]]

\* order: the order of the handles std::sort left.
updateAssetRegistry(m, order) ==
    [m EXCEPT !.sortedAssets = [i \in 1..Len(order) |->
                                   <<order[i], m.assets[order[i]].obj>>],
              !.registry = CompactRegistry(m)]

----------------------------------------------------------------------------
(* createEmbeddedAsset *)

\* copyAssetMetadata(source, target): the target takes the source's metadata
\* and runtime data and stays the object it was.
copyAssetMetadata(source, target) ==
    [source EXCEPT !.class = target.class, !.children = target.children,
                   !.obj = target.obj]

\* The in-memory asset a caller hands to createEmbeddedAsset; the object is
\* the caller's, not one this file allocates.
DataAsset(type) ==
    [handle |-> NoneUUID, path |-> <<>>, type |-> type, filename |-> <<>>,
     extension |-> <<>>, parent |-> NoneUUID, loaded |-> FALSE, class |-> "Asset",
     children |-> <<>>, obj |-> nullptr]

\* The names of the sub-assets a host file holds.
InternalPaths == {<<"m">>}

EmbeddedPath(parentPath, internalPath) ==
    XE_HOST_PATH_BEGIN \o parentPath \o XE_HOST_PATH_END \o internalPath

\* registry.at(parentPath) throws std::out_of_range for an unregistered parent.
createEmbeddedAsset(m, type, dataAsset, parentPath, internalPath) ==
    IF parentPath \notin DOMAIN m.registry
    THEN [m |-> m, dataAsset |-> dataAsset, result |-> "out_of_range"]
    ELSE LET parentID     == m.registry[parentPath].handle
             embeddedPath == EmbeddedPath(parentPath, internalPath)
             r            == createEmptyAsset(m, embeddedPath, type, parentID)
             metaAsset    == r.asset
         IN  [m         |-> [r.m EXCEPT !.destroyed = Delete(@, metaAsset.obj)],
              dataAsset |-> copyAssetMetadata(metaAsset, dataAsset),
              result    |-> "void"]

----------------------------------------------------------------------------
(* loadAssetData *)

\* What a bound load function (loadModelAsset, loadTextureAsset) returns; it
\* leaves the registry and the live store as they are.
LoaderResults == {"true", "false"}

\* What a call on an asset of this type can come to: the loader's result, an
\* exception of serializers.at(), or, when the bound function is null, the
\* end of a non-void function without a return (any value).
LoadOutcomes(srl, type) ==
    IF type = "Directory" THEN {"false"}
    ELSE IF type \notin DOMAIN srl THEN {"out_of_range"}
    ELSE IF srl[type].load = "nullptr" THEN {"true", "false", "undefined"}
    ELSE LoaderResults

HasLoader(srl, type) == type \in DOMAIN srl /\ srl[type].load # "nullptr"

LoadAssetDataNoDirectoryCheck(m, srl, handle, outcome) ==
    [m      |-> [m EXCEPT !.assets[handle].loaded = (outcome = "true")],
     result |-> outcome,
     calls  |-> IF HasLoader(srl, m.assets[handle].type) THEN 1 ELSE 0]

LoadAssetDataKeepFlag(m, srl, handle, outcome) ==
    [m |-> m, result |-> outcome,
     calls |-> IF HasLoader(srl, m.assets[handle].type) THEN 1 ELSE 0]

\* outcome: one of LoadOutcomes for the asset's type.
loadAssetData(m, srl, handle, outcome) ==
    LET type == m.assets[handle].type
    IN  IF type # "Directory" /\ HasLoader(srl, type)
        THEN [m      |-> [m EXCEPT !.assets[handle].loaded = (outcome = "true")],
              result |-> outcome,
              calls  |-> 1]
        ELSE [m |-> m, result |-> outcome, calls |-> 0]

----------------------------------------------------------------------------
(* The registry the persistence layer hands to a new manager. *)

PersistedPaths == {PathA}
PersistedHandle == [q \in PersistedPaths |-> 1]
PersistedTypes == [q \in PersistedPaths |-> {"Model", "Texture"}]

\* Registries a previous run saved: no two paths share a handle.
PersistedRegistries ==
    UNION {{reg \in [D -> [handle : {PersistedHandle[q] : q \in PersistedPaths},
                           path : D, type : AssetType]] :
               \A q \in D : /\ reg[q].handle = PersistedHandle[q]
                            /\ reg[q].path = q
                            /\ reg[q].type \in PersistedTypes[q]}
           : D \in SUBSET PersistedPaths}

\* UUID() never generates a handle a persisted registry holds.
FirstUUID == Cardinality(DOMAIN PersistedHandle) + 1

----------------------------------------------------------------------------
(* State *)

NoAsset == DataAsset("None")

NoCall ==
    [op |-> "none", path |-> <<>>, type |-> "None", parent |-> NoneUUID,
     asset |-> NoAsset, result |-> "void", calls |-> 0, order |-> <<>>,
     before |-> [registry |-> <<>>, assets |-> <<>>]]

Before == [registry |-> registry, assets |-> assets]

Init ==
    /\ s_assetManager = "nullptr"
    /\ projectFolder = <<>>
    /\ serializers = <<>>
    /\ registry = <<>>
    /\ assets = <<>>
    /\ sortedAssets = <<>>
    /\ destroyed = <<>>
    /\ nextUUID = FirstUUID
    /\ nextObj = 1
    /\ fs \in FsStates
    /\ calls = 0
    /\ ret = NoCall

\* A caller makes one more call on the manager.
Call ==
    /\ s_assetManager = "manager"
    /\ calls < MaxCalls
    /\ calls' = calls + 1

\* The manager's fields take the values of m.
Becomes(m) ==
    /\ registry' = m.registry
    /\ assets' = m.assets
    /\ sortedAssets' = m.sortedAssets
    /\ destroyed' = m.destroyed
    /\ nextUUID' = m.nextUUID
    /\ nextObj' = m.nextObj

\* The parents a caller passes for a path: none, or the handle of the
\* directory the path lies in when that is a live Directory object (the
\* static_cast at the child link is defined only for those).
ParentChoices(path) ==
    {NoneUUID} \cup
    {h \in DOMAIN assets :
        /\ path \in FsPaths
        /\ FsParent[path] \in DOMAIN registry
        /\ registry[FsParent[path]].handle = h
        /\ assets[h].class = "Directory"}

----------------------------------------------------------------------------
(* Actions *)

CreateAssetManager ==
    /\ s_assetManager = "nullptr"
    /\ \E reg \in PersistedRegistries, ord \in EnumOrders :
         LET m0 == NewManager(reg, nextUUID)
             m1 == updateDirectoryAssets(m0, fs, ProjectFolder, NoneUUID, ord)
         IN  \E order \in SortedOrders(m1) :
               /\ Becomes(updateAssetRegistry(m1, order))
               /\ ret' = [NoCall EXCEPT !.op = "createAssetManager",
                                        !.path = ProjectFolder,
                                        !.type = "Directory",
                                        !.asset = m1.assets[
                                            createEmptyAsset(m0, ProjectFolder,
                                                "Directory", NoneUUID).asset.handle],
                                        !.order = DirectoryEntries(fs, ProjectFolder, ord),
                                        !.before = [registry |-> reg, assets |-> <<>>]]
    /\ s_assetManager' = "manager"
    /\ projectFolder' = ProjectFolder
    /\ serializers' = [t \in {"Model", "Texture"} |->
                          [save |-> "nullptr",
                           load |-> IF t = "Model" THEN "loadModelAsset"
                                                   ELSE "loadTextureAsset"]]
    /\ UNCHANGED <<fs, calls>>

CreateEmptyAsset ==
    /\ Call
    /\ \E path \in AllPaths, type \in AssetType : \E parent \in ParentChoices(path) :
         LET r == createEmptyAsset(Manager, path, type, parent)
         IN  /\ Becomes(r.m)
             /\ ret' = [NoCall EXCEPT !.op = "createEmptyAsset", !.path = path,
                                      !.type = type, !.parent = parent,
                                      !.asset = r.asset, !.before = Before]
    /\ UNCHANGED <<s_assetManager, projectFolder, serializers, fs>>

CreateEmbeddedAsset ==
    /\ Call
    /\ \E type \in {"Model"}, parentPath \in AllPaths, internalPath \in InternalPaths :
         LET r == createEmbeddedAsset(Manager, type, DataAsset(type),
                                      parentPath, internalPath)
         IN  /\ Becomes(r.m)
             /\ ret' = [NoCall EXCEPT !.op = "createEmbeddedAsset",
                                      !.path = parentPath, !.type = type,
                                      !.asset = r.dataAsset, !.result = r.result,
                                      !.before = Before]
    /\ UNCHANGED <<s_assetManager, projectFolder, serializers, fs>>

LoadAssetData ==
    /\ Call
    /\ \E handle \in DOMAIN assets :
         \E outcome \in LoadOutcomes(serializers, assets[handle].type) :
           LET r == loadAssetData(Manager, serializers, handle, outcome)
           IN  /\ Becomes(r.m)
               /\ ret' = [NoCall EXCEPT !.op = "loadAssetData",
                                        !.path = assets[handle].path,
                                        !.type = assets[handle].type,
                                        !.asset = r.m.assets[handle],
                                        !.result = r.result, !.calls = r.calls,
                                        !.before = Before]
    /\ UNCHANGED <<s_assetManager, projectFolder, serializers, fs>>

ImportAsset ==
    /\ Call
    /\ \E path \in AllPaths : \E parent \in ParentChoices(path) :
         LET m == importAsset(Manager, path, parent)
             handle == createEmptyAsset(Manager, path, getAssetTypeFromPath(path),
                                        parent).asset.handle
         IN  /\ Becomes(m)
             /\ ret' = [NoCall EXCEPT !.op = "importAsset", !.path = path,
                                      !.type = getAssetTypeFromPath(path),
                                      !.parent = parent,
                                      !.asset = m.assets[handle],
                                      !.before = Before]
    /\ UNCHANGED <<s_assetManager, projectFolder, serializers, fs>>

\* path: a directory that exists (directory_iterator throws otherwise).
UpdateDirectoryAssets ==
    /\ Call
    /\ \E path \in AllPaths, ord \in EnumOrders : \E parent \in ParentChoices(path) :
         /\ IsDirectory(fs, path)
         /\ LET m == updateDirectoryAssets(Manager, fs, path, parent, ord)
                handle == createEmptyAsset(Manager, path, "Directory",
                                           parent).asset.handle
            IN  /\ Becomes(m)
                /\ ret' = [NoCall EXCEPT !.op = "updateDirectoryAssets",
                                         !.path = path, !.type = "Directory",
                                         !.parent = parent,
                                         !.order = DirectoryEntries(fs, path, ord),
                                         !.asset = m.assets[handle],
                                         !.before = Before]
    /\ UNCHANGED <<s_assetManager, projectFolder, serializers, fs>>

UpdateAssetRegistry ==
    /\ Call
    /\ \E order \in SortedOrders(Manager) :
         /\ Becomes(updateAssetRegistry(Manager, order))
         /\ ret' = [NoCall EXCEPT !.op = "updateAssetRegistry", !.before = Before]
    /\ UNCHANGED <<s_assetManager, projectFolder, serializers, fs>>

\* One operation on the filesystem: the states that differ from f at one path,
\* and below it when it was a directory.
FsOperations(f) ==
    {g \in FsStates :
        LET changed == {q \in FsPaths : g[q] # f[q]}
        IN  \E q \in changed : \A r \in changed : r = q \/ FsParent[r] = q}

\* The environment creates or removes a file or a directory between two calls
\* (a change after the last call is observed by nobody).
FilesystemChange ==
    /\ s_assetManager = "manager"
    /\ calls < MaxCalls
    /\ ret.op # "filesystem"
    /\ \E f \in FsOperations(fs) : fs' = f
    /\ ret' = [NoCall EXCEPT !.op = "filesystem"]
    /\ UNCHANGED <<s_assetManager, projectFolder, serializers, registry, assets,
                   sortedAssets, destroyed, nextUUID, nextObj, calls>>

Next ==
    \/ CreateAssetManager
    \/ CreateEmptyAsset
    \/ CreateEmbeddedAsset
    \/ LoadAssetData
    \/ ImportAsset
    \/ UpdateDirectoryAssets
    \/ UpdateAssetRegistry

\* The calls on the manager over a filesystem that does not change.
Spec == Init /\ [][Next]_vars

\* The characters of the path strings: the separator, the dot, a letter.
PathChars == {"/", ".", "a"}

PathStrings == UNION {[1..n -> PathChars] : n \in 0..MaxPathLen}

\* A manager with an empty registry over an empty project folder, and a path
\* string a caller is about to pass to createEmptyAsset.
InitPath ==
    /\ s_assetManager = "manager"
    /\ projectFolder = ProjectFolder
    /\ serializers = <<>>
    /\ registry = <<>>
    /\ assets = <<>>
    /\ sortedAssets = <<>>
    /\ destroyed = <<>>
    /\ nextUUID = FirstUUID
    /\ nextObj = 1
    /\ fs = [q \in FsPaths |-> "absent"]
    /\ calls = 0
    /\ \E path \in PathStrings : ret = [NoCall EXCEPT !.path = path]

\* createEmptyAsset on the path string, with any declared type.
CreateEmptyAssetOfPath ==
    /\ ret.op = "none"
    /\ Call
    /\ \E type \in AssetType :
         LET r == createEmptyAsset(Manager, ret.path, type, NoneUUID)
         IN  /\ Becomes(r.m)
             /\ ret' = [NoCall EXCEPT !.op = "createEmptyAsset", !.path = ret.path,
                                      !.type = type, !.asset = r.asset,
                                      !.before = Before]
    /\ UNCHANGED <<s_assetManager, projectFolder, serializers, fs>>

NextPath == CreateEmptyAssetOfPath

\* createEmptyAsset over the path strings.
SpecPath == InitPath /\ [][NextPath]_vars

\* The scanner's calls over a filesystem that changes between them.
NextFs ==
    \/ CreateAssetManager
    \/ UpdateDirectoryAssets
    \/ UpdateAssetRegistry
    \/ FilesystemChange

SpecFs == Init /\ [][NextFs]_vars

----------------------------------------------------------------------------
(* Properties *)

Handles(reg) == {reg[p].handle : p \in DOMAIN reg}

\* The paths a scan of `path` visits: the directory and all that lies in it.
RECURSIVE IsUnder(_, _)
IsUnder(q, path) ==
    q \in FsPaths /\ (FsParent[q] = path \/ IsUnder(FsParent[q], path))

ScannedPaths(f, path) == {path} \cup {q \in FsPaths : f[q] # "absent" /\ IsUnder(q, path)}

\* The call ended with a scan of the directory ret.path.
IsScan == ret.op \in {"createAssetManager", "updateDirectoryAssets"}

\* C1: a path that has a registry entry keeps its handle through
\* createEmptyAsset, importAsset and updateDirectoryAssets: the entry keeps
\* it, every live asset of the path is stored under it, the asset
\* createEmptyAsset returns carries it, and every path a scan visits that was
\* registered before the scan is live under the handle it had.
IdentityStability ==
    LET old == ret.before.registry
    IN  ret.op \in {"createEmptyAsset", "importAsset", "updateDirectoryAssets",
                    "createAssetManager"} =>
          /\ \A p \in DOMAIN old \cap DOMAIN registry :
                registry[p].handle = old[p].handle
          /\ \A h \in DOMAIN assets :
                assets[h].path \in DOMAIN old => h = old[assets[h].path].handle
          /\ (ret.op \in {"createEmptyAsset", "importAsset"} /\ ret.path \in DOMAIN old)
                => ret.asset.handle = old[ret.path].handle
          /\ IsScan =>
                \A p \in ScannedPaths(fs, ret.path) \cap DOMAIN old :
                    /\ p \in DOMAIN registry
                    /\ registry[p].handle = old[p].handle
                    /\ old[p].handle \in DOMAIN assets
                    /\ assets[old[p].handle].path = p

\* A second scan of the whole project: every path of the tree, files and a
\* sub-directory among them, was registered and live before it.
IdentityStabilityWitness ==
    /\ ret.op = "updateDirectoryAssets"
    /\ ret.path = ProjectFolder
    /\ fs[PathA] = "file" /\ fs[PathS] = "dir" /\ fs[PathSA] = "file"
    /\ \A p \in ScannedPaths(fs, ProjectFolder) :
          /\ p \in DOMAIN ret.before.registry
          /\ ret.before.registry[p].handle \in DOMAIN ret.before.assets
          /\ registry[p].handle = ret.before.registry[p].handle

\* C2: importAsset on a path that has a registry entry and a live asset
\* stores a newly created object under the same handle, deletes the one it
\* replaces, and leaves the registry, the path's entry included, as it was.
ReimportOverwrite ==
    LET old == ret.before.registry
        h   == old[ret.path].handle
    IN  (/\ ret.op = "importAsset"
         /\ ret.path \in DOMAIN old
         /\ h \in DOMAIN ret.before.assets) =>
          /\ h \in DOMAIN assets
          /\ assets[h] = ret.asset
          /\ assets[h].path = ret.path
          /\ \A k \in DOMAIN ret.before.assets :
                assets[h].obj # ret.before.assets[k].obj
          /\ assets[h].obj \notin DOMAIN destroyed
          /\ ret.before.assets[h].obj \in DOMAIN destroyed
          /\ DOMAIN assets = DOMAIN ret.before.assets
          /\ registry[ret.path] = old[ret.path]
          /\ registry = old

\* A re-import whose classification differs from the registered type.
ReimportOverwriteWitness ==
    /\ ret.op = "importAsset"
    /\ ret.path \in DOMAIN ret.before.registry
    /\ ret.before.registry[ret.path].handle \in DOMAIN ret.before.assets
    /\ ret.type # ret.before.registry[ret.path].type
    /\ ret.asset.type = "None"

\* C3: right after updateAssetRegistry has returned (createAssetManager ends
\* with it), the handles of the registry entries are exactly the keys of the
\* live store.
CompactionCorrect ==
    ret.op \in {"updateAssetRegistry", "createAssetManager"} =>
        Handles(registry) = DOMAIN assets

\* The registry started with an entry for a path the scan did not find, and
\* the compaction erased it.
CompactionCorrectWitness ==
    /\ ret.op = "createAssetManager"
    /\ \E p \in DOMAIN ret.before.registry : p \notin DOMAIN registry
    /\ assets # <<>>

\* C4: every key of the live store has exactly one registry entry carrying
\* it, and that entry is the one of the path in the live asset's metadata.
RegistryLiveStoreConsistent ==
    \A h \in DOMAIN assets :
        /\ Cardinality({p \in DOMAIN registry : registry[p].handle = h}) = 1
        /\ assets[h].path \in DOMAIN registry
        /\ registry[assets[h].path].handle = h
        /\ registry[assets[h].path].path = assets[h].path
        /\ assets[h].handle = h

\* A scan and an import have run on a store of four assets.
RegistryLiveStoreConsistentWitness ==
    /\ ret.op = "importAsset"
    /\ calls = 2
    /\ Cardinality(DOMAIN assets) = 4
    /\ \E h \in DOMAIN assets : assets[h].obj > 5

\* C5: createEmptyAsset with a declared type other than the registered type
\* of the path returns an asset of type None under the registered handle.
TypeMismatchPolicy ==
    LET old == ret.before.registry
    IN  (/\ ret.op = "createEmptyAsset"
         /\ ret.path \in DOMAIN old
         /\ old[ret.path].type # ret.type) =>
          /\ ret.asset.type = "None"
          /\ ret.asset.handle = old[ret.path].handle

\* A path registered as Model, declared as Texture.
TypeMismatchPolicyWitness ==
    /\ ret.op = "createEmptyAsset"
    /\ ret.path = PathA
    /\ PathA \in DOMAIN ret.before.registry
    /\ ret.before.registry[PathA].type = "Model"
    /\ ret.type = "Texture"
    /\ ret.asset.type = "None"
    /\ ret.asset.handle = registry[PathA].handle

\* The handles the registry gives to the entries a scan enumerated.
RECURSIVE EntryHandles(_, _)
EntryHandles(reg, entries) ==
    IF entries = <<>> THEN <<>>
    ELSE <<reg[Head(entries)].handle>> \o EntryHandles(reg, Tail(entries))

RECURSIVE SubDirectories(_, _)
SubDirectories(f, entries) ==
    IF entries = <<>> THEN <<>>
    ELSE (IF f[Head(entries)] = "dir" THEN <<Head(entries)>> ELSE <<>>)
         \o SubDirectories(f, Tail(entries))

Range(seq) == {seq[i] : i \in 1..Len(seq)}

\* Every entry the scan enumerated is live with the directory as its parent.
EntriesLinked ==
    \A q \in Range(ret.order) :
        /\ q \in DOMAIN registry
        /\ registry[q].handle \in DOMAIN assets
        /\ assets[registry[q].handle].path = q
        /\ assets[registry[q].handle].parent = ret.asset.handle

\* C6 as stated: after a scan the directory's children are exactly the
\* handles of all its direct entries, sub-directories and files, and each
\* entry has the directory as its parent.
DirectoryChildrenAllEntries ==
    IsScan =>
        /\ EntriesLinked
        /\ Range(ret.asset.children) = Range(EntryHandles(registry, ret.order))

\* C6, amended: after a scan of a directory whose parent is not the directory
\* itself, its children are the handles of its direct sub-directories, once
\* each in enumeration order, and no handle of a file; every direct entry,
\* sub-directory or file, has the directory as its parent.
DirectoryChildrenSubDirectories ==
    (IsScan /\ ret.parent # ret.asset.handle) =>
        /\ EntriesLinked
        /\ assets[ret.asset.handle] = ret.asset
        /\ ret.asset.children = EntryHandles(registry, SubDirectories(fs, ret.order))
        /\ \A q \in Range(ret.order) :
              fs[q] = "file" => registry[q].handle \notin Range(ret.asset.children)

\* The scanned directory holds a file and a sub-directory.
DirectoryChildrenWitness ==
    /\ IsScan
    /\ ret.path = ProjectFolder
    /\ fs[PathA] = "file" /\ fs[PathS] = "dir"
    /\ Len(ret.order) = 2
    /\ ret.asset.children = <<registry[PathS].handle>>

\* C7 as stated: createEmbeddedAsset on a registered parent with handle H and
\* a synthetic path that is not registered leaves the registry with exactly
\* one new entry, for the synthetic path; the data asset has the handle of
\* that entry, and it differs from H.
EmbeddedAssetRegistered ==
    LET old      == ret.before.registry
        embedded == ret.asset.path
    IN  (/\ ret.op = "createEmbeddedAsset"
         /\ ret.path \in DOMAIN old
         /\ embedded \notin DOMAIN old) =>
          /\ DOMAIN registry = DOMAIN old \cup {embedded}
          /\ \A p \in DOMAIN old : registry[p] = old[p]
          /\ registry[embedded].handle = ret.asset.handle
          /\ ret.asset.handle # old[ret.path].handle

\* C8 as stated: two calls of createEmbeddedAsset with the same parent path
\* and the same internal path give the data asset the same handle (here: two
\* calls in a row).
EmbeddedIdentityStable ==
    [][(/\ ret.op = "createEmbeddedAsset" /\ ret.result = "void"
        /\ ret'.op = "createEmbeddedAsset" /\ ret'.result = "void"
        /\ ret'.asset.path = ret.asset.path)
       => ret'.asset.handle = ret.asset.handle]_vars

\* C9 as stated: loadAssetData on an asset that is not a Directory and whose
\* type has no load function returns false.
NoLoaderReturnsFalse ==
    (/\ ret.op = "loadAssetData"
     /\ ret.type # "Directory"
     /\ ~HasLoader(serializers, ret.type)) => ret.result = "false"

\* C10: loadAssetData on an asset that is not a Directory and whose type has a
\* bound loader calls the loader once, stores its result in the asset's
\* loaded flag and returns it; the other assets, the registry and the keys of
\* the live store are as before.
LoadDispatch ==
    (/\ ret.op = "loadAssetData"
     /\ ret.type # "Directory"
     /\ HasLoader(serializers, ret.type)) =>
        /\ ret.calls = 1
        /\ ret.result \in LoaderResults
        /\ assets[ret.asset.handle] = ret.asset
        /\ ret.asset.loaded = (ret.result = "true")
        /\ registry = ret.before.registry
        /\ DOMAIN assets = DOMAIN ret.before.assets
        /\ \A h \in DOMAIN assets :
              assets[h] = [ret.before.assets[h] EXCEPT
                              !.loaded = IF h = ret.asset.handle
                                         THEN ret.result = "true" ELSE @]

\* A Model was loaded and its loader succeeded.
LoadDispatchWitness ==
    /\ ret.op = "loadAssetData"
    /\ ret.type = "Model"
    /\ ret.result = "true"
    /\ ret.asset.loaded
    /\ ~ret.before.assets[ret.asset.handle].loaded

\* C11: loadAssetData on an asset of type Directory returns false and calls no
\* loader; the asset, with the loaded flag the scan set, the other assets and
\* the registry are as before.
DirectoryLoadNoOp ==
    (ret.op = "loadAssetData" /\ ret.type = "Directory") =>
        /\ ret.result = "false"
        /\ ret.calls = 0
        /\ ret.asset.loaded
        /\ ret.asset = ret.before.assets[ret.asset.handle]
        /\ assets = ret.before.assets
        /\ registry = ret.before.registry

\* A scanned sub-directory was loaded.
DirectoryLoadNoOpWitness ==
    /\ ret.op = "loadAssetData"
    /\ ret.type = "Directory"
    /\ ret.asset.class = "Directory"
    /\ ret.path = PathS
    /\ ret.asset.loaded
    /\ ret.result = "false"

\* The directories (the root among them) and the files of the project tree.
TreeDirectories == {ProjectFolder} \cup {q \in FsPaths : fs[q] = "dir"}
TreeFiles == {q \in FsPaths : fs[q] = "file"}
TreeSize == Cardinality(TreeDirectories) + Cardinality(TreeFiles)

\* C12: a scan of a tree of d directories and f files that starts from an
\* empty registry and an empty live store leaves d + f live assets and d + f
\* registry entries, one for each path of the tree, and the root's children
\* are its sub-directories in enumeration order; a scan of the root run on
\* that result leaves the same handles, the same registry and the same counts.
EndToEndScan ==
    /\ (ret.op = "createAssetManager" /\ ret.before.registry = <<>>) =>
          /\ Cardinality(DOMAIN assets) = TreeSize
          /\ Cardinality(DOMAIN registry) = TreeSize
          /\ DOMAIN registry = TreeDirectories \cup TreeFiles
          /\ ret.asset.children = EntryHandles(registry, SubDirectories(fs, ret.order))
    /\ (/\ ret.op = "updateDirectoryAssets"
        /\ ret.path = ProjectFolder
        /\ DOMAIN ret.before.registry = TreeDirectories \cup TreeFiles
        /\ DOMAIN ret.before.assets = Handles(ret.before.registry)) =>
          /\ DOMAIN assets = DOMAIN ret.before.assets
          /\ registry = ret.before.registry
          /\ Cardinality(DOMAIN assets) = TreeSize
          /\ Cardinality(DOMAIN registry) = TreeSize
          /\ ret.asset.children = EntryHandles(registry, SubDirectories(fs, ret.order))

\* The second scan of a tree of three directories and a file, none of them
\* known to a persisted registry.
EndToEndScanWitness ==
    /\ ret.op = "updateDirectoryAssets"
    /\ ret.path = ProjectFolder
    /\ calls = 1
    /\ fs[PathA] = "dir" /\ fs[PathS] = "dir" /\ fs[PathSA] = "file"
    /\ DOMAIN ret.before.registry = AllPaths
    /\ ret.before.registry[PathA].type = "Directory"
    /\ Cardinality(DOMAIN assets) = 4
    /\ ret.asset.children = <<registry[PathS].handle, registry[PathA].handle>>

\* C13 as stated: after a scan of the root followed by updateAssetRegistry,
\* the live store and the registry hold only paths that scan enumerated.
LiveStoreReflectsScan ==
    [][(/\ ret.op = "updateDirectoryAssets"
        /\ ret.path = ProjectFolder
        /\ ret'.op = "updateAssetRegistry")
       => /\ \A h \in DOMAIN assets' :
                assets'[h].path \in ScannedPaths(fs', ProjectFolder)
          /\ DOMAIN registry' \subseteq ScannedPaths(fs', ProjectFolder)]_vars

\* The lower-cased filename of a is less than or equal to that of b.
FilenameLeq(a, b) == ~StringLess(ToLower(b.filename), ToLower(a.filename))

\* C14: right after updateAssetRegistry, sortedAssets has one pair (handle,
\* object) for each entry of the live store and nothing else, and of two
\* adjacent pairs the earlier has the smaller type ordinal, or the same type
\* and a lower-cased filename less than or equal to the later one's.
SortedView ==
    ret.op \in {"updateAssetRegistry", "createAssetManager"} =>
        /\ Len(sortedAssets) = Cardinality(DOMAIN assets)
        /\ Range(sortedAssets) = {<<h, assets[h].obj>> : h \in DOMAIN assets}
        /\ \A i \in 1..(Len(sortedAssets) - 1) :
              LET a == assets[sortedAssets[i][1]]
                  b == assets[sortedAssets[i + 1][1]]
              IN  \/ TypeOrdinal[a.type] < TypeOrdinal[b.type]
                  \/ (a.type = b.type /\ FilenameLeq(a, b))

\* Directories and two Models whose filenames differ only in case, the
\* upper-case one first.
SortedViewWitness ==
    /\ ret.op \in {"updateAssetRegistry", "createAssetManager"}
    /\ Len(sortedAssets) = 4
    /\ assets[sortedAssets[1][1]].type = "Directory"
    /\ assets[sortedAssets[2][1]].type = "Directory"
    /\ assets[sortedAssets[3][1]].path = PathSA
    /\ assets[sortedAssets[4][1]].path = PathA
    /\ assets[sortedAssets[4][1]].type = "Model"

\* The objects of the live store.
LiveObjects(store) == {store[h].obj : h \in DOMAIN store}

\* C15: an object the live store no longer holds after a call has been
\* deleted, no object has been deleted twice, and no entry of the live store
\* refers to a deleted object.
ExclusiveOwnership ==
    /\ \A o \in DOMAIN destroyed : destroyed[o] = 1
    /\ \A h \in DOMAIN assets : assets[h].obj \notin DOMAIN destroyed
    /\ \A h \in DOMAIN ret.before.assets :
          ret.before.assets[h].obj \notin LiveObjects(assets)
              => ret.before.assets[h].obj \in DOMAIN destroyed
    /\ \A h, k \in DOMAIN assets : assets[h].obj = assets[k].obj => h = k

\* A scan replaced every object of a store of three or more entries.
ExclusiveOwnershipWitness ==
    /\ ret.op = "updateDirectoryAssets"
    /\ Cardinality(DOMAIN ret.before.assets) >= 3
    /\ LiveObjects(ret.before.assets) \subseteq DOMAIN destroyed
    /\ LiveObjects(assets) \cap LiveObjects(ret.before.assets) = {}

\* C16: a scan of a directory that was scanned before leaves in its children
\* only handles this scan appended, those of its present sub-directories;
\* none is carried over from the scan before.
ChildrenReplaced ==
    LET h == ret.asset.handle
    IN  (/\ ret.op = "updateDirectoryAssets"
         /\ h \in DOMAIN ret.before.assets
         /\ ret.before.assets[h].class = "Directory"
         /\ ret.parent # h) =>
          /\ \A c \in Range(assets[h].children) :
                \E q \in Range(ret.order) : fs[q] = "dir" /\ registry[q].handle = c
          /\ Len(assets[h].children) <= Len(SubDirectories(fs, ret.order))
          /\ \A q \in DOMAIN ret.before.registry :
                (q \in FsPaths /\ FsParent[q] = ret.path /\ fs[q] # "dir")
                    => ret.before.registry[q].handle \notin Range(assets[h].children)

\* The sub-directory the scan before had linked no longer exists, and the
\* second scan does not list it.
ChildrenReplacedWitness ==
    /\ ret.op = "updateDirectoryAssets"
    /\ ret.path = ProjectFolder
    /\ ret.asset.handle \in DOMAIN ret.before.assets
    /\ PathS \in DOMAIN ret.before.registry
    /\ ret.before.registry[PathS].handle
          \in Range(ret.before.assets[ret.asset.handle].children)
    /\ fs[PathS] = "absent"
    /\ fs[PathA] = "dir"
    /\ ret.asset.children = <<registry[PathA].handle>>

\* C17: createEmptyAsset leaves the registry and the live store as they were.
CreateEmptyAssetNoEffect ==
    ret.op = "createEmptyAsset" =>
        /\ registry = ret.before.registry
        /\ assets = ret.before.assets

\* createEmptyAsset on a path that is not registered, which got a new handle.
CreateEmptyAssetNoEffectWitness ==
    /\ ret.op = "createEmptyAsset"
    /\ registry # <<>>
    /\ ret.path \notin DOMAIN registry
    /\ ret.asset.handle \notin Handles(registry)
    /\ ret.asset.handle = nextUUID - 1

\* C18: the filename createEmptyAsset derives is empty for a path without a
\* separator, the path before the trailing separator for a path that ends in
\* one, and else what follows the last separator.
FilenameDecomposition ==
    LET path == ret.path
        name == ret.asset.filename
    IN  ret.op = "createEmptyAsset" =>
          /\ "/" \notin Range(path) => name = <<>>
          /\ (path # <<>> /\ path[Len(path)] = "/") => name \o <<"/">> = path
          /\ ("/" \in Range(path) /\ path[Len(path)] # "/") =>
                /\ "/" \notin Range(name)
                /\ \E k \in 1..Len(path) :
                      path[k] = "/" /\ name = SubSeq(path, k + 1, Len(path))

\* A path of two separators that ends in one.
FilenameDecompositionWitness ==
    /\ ret.op = "createEmptyAsset"
    /\ ret.path = <<"a", "/", ".", "/">>
    /\ ret.asset.filename = <<"a", "/", ".">>

\* C19 as stated: every pair of sortedAssets refers to the object the live
\* store holds under the pair's handle.
SortedViewRefersToLiveObjects ==
    \A i \in 1..Len(sortedAssets) :
        /\ sortedAssets[i][1] \in DOMAIN assets
        /\ assets[sortedAssets[i][1]].obj = sortedAssets[i][2]

\* C20 as stated: no live Directory's children hold a handle twice.
NoDuplicateChildren ==
    \A h \in DOMAIN assets :
        assets[h].class = "Directory" =>
            \A i, j \in 1..Len(assets[h].children) :
                assets[h].children[i] = assets[h].children[j] => i = j

====
